---- MODULE Spec2Model ----
(***************************************************************************)
(* Model of python-for-sysadmin:                                           *)
(*   src/system_monitor.py  the reporting loop (OS, memory, disk, top-10   *)
(*                          CPU processes), one action per program phase;  *)
(*   src/stdio.py           process_stream_uppercase, a pure function of   *)
(*                          the input lines, applied by SpecUpper.         *)
(* The host (psutil, socket) is the environment: each action draws the     *)
(* host's answers to the queries it makes and records them in `host`.      *)
(***************************************************************************)
EXTENDS Integers, Sequences, FiniteSets

VARIABLES
    pc,             \* position of system_monitor.py's control
    cycle,          \* number of the loop iteration being executed (from 1)
    pidlist,        \* what psutil.pids() returned in the last enumeration
    processes,      \* the list `processes` (handles, named by their pid)
    top,            \* the dict `top`, in insertion order: <<[proc, cpu_usage]>>
    top10,          \* the list `top10`
    process_table,  \* the rows of `process_table`
    out,            \* the sections written to stdout since the program started
    stdout_table,   \* the rows of the process table last written to stdout
    calls,          \* the host and clock calls of the current cycle, in order
    host,           \* the host's answers consumed by the most recent step
    exc,            \* the exception that ended the program, or "none"
    lines,          \* stdio.py: the lines that iterating in_stream yields
    lineno,         \* stdio.py: the number of lines consumed so far
    out_stream,     \* stdio.py: the characters written to out_stream
    err_stream      \* stdio.py: the lines printed to err_stream

monitorVars == <<pc, cycle, pidlist, processes, top, top10, process_table,
                 out, stdout_table, calls, host, exc>>
stdioVars == <<lines, lineno, out_stream, err_stream>>
vars == <<pc, cycle, pidlist, processes, top, top10, process_table,
          out, stdout_table, calls, host, exc,
          lines, lineno, out_stream, err_stream>>

----------------------------------------------------------------------------
(* Program constants *)

\* top10 = sorted(...)[-10:]
N == 10
\* psutil.pids()[-200:]
K == 200

(* Bounds of the model *)

\* loop iterations explored (the loop itself is `while True`)
MaxCycles == 2
\* raw cpu_percent() readings are 0..MaxCpu
MaxCpu == 2
\* psutil.cpu_count() of the host
NumCores == 2
\* the processes of pid 1..MaxVolatile may exit, be denied or change load
MaxVolatile == 1
\* stdio.py: the input has at most MaxLines lines of at most MaxLineLen
\* characters
MaxLines == 2
MaxLineLen == 2

----------------------------------------------------------------------------
(* Sequences *)

Range(s) == {s[i] : i \in 1..Len(s)}

\* s[-k:]
LastK(s, k) == IF Len(s) <= k THEN s ELSE SubSeq(s, Len(s) - k + 1, Len(s))

\* list.reverse()
Reverse(s) == [i \in 1..Len(s) |-> s[Len(s) + 1 - i]]

IsPrefix(s, t) == Len(s) <= Len(t) /\ SubSeq(t, 1, Len(s)) = s

----------------------------------------------------------------------------
(* The host *)

\* the number of processes of the host: none, one, as many as the table
\* holds, one more, one more than the enumeration cap
PidCounts == {0, 1, N, N + 1, K + 1}

\* psutil.pids(): the pids of the host, ascending
Pids(n) == [i \in 1..n |-> i]

\* the pids of an enumeration whose answers the host may vary
Volatile(enum) == Range(enum) \cap (1..MaxVolatile)

\* raw cpu_percent() of a process whose load does not vary
DefaultCpu(pid) == pid % (MaxCpu + 1)

Failures == {"NotFound", "ProcessGone", "PermissionDenied"}

\* an answer of the host to a query about a process: the error raised
\* ("none" when the query succeeds) and the raw cpu_percent() it returns
Ans(e, r) == [err |-> e, raw |-> r]

\* the first cpu_percent() of a handle returns a meaningless 0.0
Ok == Ans("none", 0)

\* the answer of the host about pid: its own, or the scripted default
Answer(h, pid, default) == IF pid \in DOMAIN h THEN h[pid] ELSE default

\* the answers consumed by a step: sys is the error of its host-level query
\* ("none" when it succeeds or there is none), proc the answers per pid
NoAnswers == [p \in {} |-> Ok]
HostAnswers(s, h) == [sys |-> s, proc |-> h]

----------------------------------------------------------------------------
(* Lines 50-58: processes = []; for pid in psutil.pids()[-200:]: try ... *)

\* `except psutil.NoSuchProcess` in place of `except Exception`
CaughtNoSuchProcess(e) == e \in {"NotFound", "ProcessGone"}

\* `except Exception`: every psutil error is an Exception
Caught(e) == e \in Failures

\* psutil.Process(pid) then proc.cpu_percent(): r.err is the error raised by
\* one of the two, or "none"; st is [list, raised]
PrimeOne(st, pid, r) ==
    IF st.raised # "none" THEN st
    ELSE IF r.err = "none" THEN [st EXCEPT !.list = Append(st.list, pid)]
    ELSE IF Caught(r.err) THEN st
    ELSE [st EXCEPT !.raised = r.err]

\* the iterations lo..hi of the loop, in order, from state st; an exception
\* that escapes an iteration ends the loop (the range is halved so that the
\* evaluation stays shallow)
RECURSIVE PrimeLoop(_, _, _, _, _)
PrimeLoop(enum, lo, hi, st, h) ==
    IF lo > hi THEN st
    ELSE IF lo = hi THEN PrimeOne(st, enum[lo], Answer(h, enum[lo], Ok))
    ELSE LET mid == (lo + hi) \div 2
             left == PrimeLoop(enum, lo, mid, st, h)
         IN IF left.raised # "none" THEN left
            ELSE PrimeLoop(enum, mid + 1, hi, left, h)

\* processes = [] and the loop over psutil.pids()[-200:]
PrimePass(enum, h) ==
    LET capped == LastK(enum, K)
    IN PrimeLoop(capped, 1, Len(capped), [list |-> <<>>, raised |-> "none"], h)

----------------------------------------------------------------------------
(* Lines 60-63: top = {}; sleep; for proc in processes: top[proc] = ... *)

\* proc.cpu_percent() / psutil.cpu_count(), kept as a fraction
Normalized(raw) == [num |-> raw, den |-> NumCores]

Less(a, b) == a.num * b.den < b.num * a.den
Same(a, b) == a.num * b.den = b.num * a.den

\* top[proc] = v on a dict kept in insertion order
DictSet(d, proc, v) ==
    IF \E i \in 1..Len(d) : d[i].proc = proc
    THEN [i \in 1..Len(d) |-> IF d[i].proc = proc
                              THEN [proc |-> proc, cpu_usage |-> v] ELSE d[i]]
    ELSE Append(d, [proc |-> proc, cpu_usage |-> v])

\* one iteration; r is the answer to proc.cpu_percent(); no try around it;
\* st is [dict, called, raised], called the handles whose cpu_percent() has
\* been called so far
MeasureOne(st, proc, r) ==
    IF st.raised # "none" THEN st
    ELSE IF r.err # "none"
    THEN [st EXCEPT !.called = Append(st.called, proc), !.raised = r.err]
    ELSE [st EXCEPT !.called = Append(st.called, proc),
                    !.dict = DictSet(st.dict, proc, Normalized(r.raw))]

RECURSIVE MeasureLoop(_, _, _, _, _)
MeasureLoop(procs, lo, hi, st, h) ==
    IF lo > hi THEN st
    ELSE IF lo = hi
    THEN MeasureOne(st, procs[lo],
                    Answer(h, procs[lo], Ans("none", DefaultCpu(procs[lo]))))
    ELSE LET mid == (lo + hi) \div 2
             left == MeasureLoop(procs, lo, mid, st, h)
         IN IF left.raised # "none" THEN left
            ELSE MeasureLoop(procs, mid + 1, hi, left, h)

\* the loop over processes, filling the dict d
MeasurePass(procs, d, h) ==
    MeasureLoop(procs, 1, Len(procs),
                [dict |-> d, called |-> <<>>, raised |-> "none"], h)

----------------------------------------------------------------------------
(* Lines 64-65: top10 = sorted(top.items(), key=...)[-10:]; top10.reverse() *)

Keys(items) == {items[i].cpu_usage : i \in 1..Len(items)}

MinKey(ks) == CHOOSE k \in ks : \A j \in ks : ~Less(j, k)

\* sorted(items, key=cpu_usage): ascending and stable, the entries of the
\* least key first, in their order in items
RECURSIVE Sorted(_)
Sorted(items) ==
    IF Len(items) = 0 THEN <<>>
    ELSE LET m == MinKey(Keys(items))
         IN SelectSeq(items, LAMBDA e : Same(e.cpu_usage, m))
            \o Sorted(SelectSeq(items, LAMBDA e : ~Same(e.cpu_usage, m)))

\* the [-10:] slice left out
RankNoCut(d) == Reverse(Sorted(d))

\* top10.reverse() left out
RankNoReverse(d) == LastK(Sorted(d), N)

\* sorted(..., reverse=True)[:10]: descending and stable
RECURSIVE SortedDescending(_)
SortedDescending(items) ==
    IF Len(items) = 0 THEN <<>>
    ELSE LET ks == Keys(items)
             m == CHOOSE k \in ks : \A j \in ks : ~Less(k, j)
         IN SelectSeq(items, LAMBDA e : Same(e.cpu_usage, m))
            \o SortedDescending(SelectSeq(items, LAMBDA e : ~Same(e.cpu_usage, m)))

RankDescending(d) ==
    LET desc == SortedDescending(d)
    IN SubSeq(desc, 1, IF Len(desc) < N THEN Len(desc) ELSE N)

Rank(d) == Reverse(LastK(Sorted(d), N))

----------------------------------------------------------------------------
(* Lines 66-81: the rows of process_table *)

\* f'{cpu_usage:.2f}%': hundredths of a percent, rounded to nearest (no
\* reading of the model lies halfway between two hundredths)
Format2(c) == (2 * 100 * c.num + c.den) \div (2 * c.den)

\* one iteration; r.err is the error raised by name(), status(),
\* num_threads() or memory_info(), or "none"; the name, status, threads and
\* memory columns are the host's and decide nothing here
\* the row built outside any try
RowOneNoTry(st, e, r) ==
    IF st.raised # "none" THEN st
    ELSE IF r.err = "none"
    THEN [st EXCEPT !.list = Append(st.list, [pid |-> e.proc,
                                              cpu |-> Format2(e.cpu_usage)])]
    ELSE [st EXCEPT !.raised = r.err]

\* st is [list, raised]; the try/except of lines 69-81 is `except Exception`
RowOne(st, e, r) ==
    IF st.raised # "none" THEN st
    ELSE IF r.err = "none"
    THEN [st EXCEPT !.list = Append(st.list, [pid |-> e.proc,
                                              cpu |-> Format2(e.cpu_usage)])]
    ELSE IF Caught(r.err) THEN st
    ELSE [st EXCEPT !.raised = r.err]

RECURSIVE RowLoop(_, _, _, _, _)
RowLoop(sel, lo, hi, st, h) ==
    IF lo > hi THEN st
    ELSE IF lo = hi THEN RowOne(st, sel[lo], Answer(h, sel[lo].proc, Ok))
    ELSE LET mid == (lo + hi) \div 2
             left == RowLoop(sel, lo, mid, st, h)
         IN IF left.raised # "none" THEN left
            ELSE RowLoop(sel, mid + 1, hi, left, h)

\* process_table = PrettyTable(...) and the loop over top10
Rows(sel, h) == RowLoop(sel, 1, Len(sel), [list |-> <<>>, raised |-> "none"], h)

----------------------------------------------------------------------------
(* The reporting loop *)

\* the label that follows p in order, the first one after the last
Following(order, p) ==
    LET i == CHOOSE j \in 1..Len(order) : order[j] = p
    IN order[(i % Len(order)) + 1]

\* top = {} and time.sleep(.1) placed after the measuring loop
AfterSettleLate(p) ==
    Following(<<"os", "memory", "disk", "prime", "measure", "settle", "rank",
                "rows", "print", "sleep">>, p)

\* the statements of the loop body, in program order; line 84 loops back
After(p) ==
    Following(<<"os", "memory", "disk", "prime", "settle", "measure", "rank",
                "rows", "print", "sleep">>, p)

\* a call of the current cycle: what was called, on which handles (those
\* actually reached), and the raw readings it returned
NoRaw == [p \in {} |-> 0]
Call(o, ps, r) == [op |-> o, procs |-> ps, raw |-> r]

Init ==
    /\ pc = "os"
    /\ cycle = 1
    /\ pidlist = <<>>
    /\ processes = <<>>
    /\ top = <<>>
    /\ top10 = <<>>
    /\ process_table = <<>>
    /\ out = <<>>
    /\ stdout_table = <<>>
    /\ calls = <<>>
    /\ host = HostAnswers("none", NoAnswers)
    /\ exc = "none"
    /\ lines = <<>>
    /\ lineno = 0
    /\ out_stream = <<>>
    /\ err_stream = <<>>

\* an uncaught exception: the traceback ends the program
Raise(e) == pc' = "crashed" /\ exc' = e

\* the statement completes and control moves on
Continue == pc' = After(pc) /\ exc' = exc

\* the query wrapped in try/except: pass
HostSectionSwallow(r, header, result) ==
    IF r = "none"
    THEN out' = out \o <<header, result>> /\ Continue
    ELSE out' = Append(out, header) /\ Continue

\* a section of the report: what precedes the host query is printed, the
\* query answers r, and what follows is printed unless the query raised
HostSection(r, header, result) ==
    IF r = "none"
    THEN out' = out \o <<header, result>> /\ Continue
    ELSE out' = Append(out, header) /\ Raise(r)

\* lines 22-33: the OS block; socket.gethostbyname may fail
OsInfo ==
    /\ pc = "os"
    /\ \E r \in {"none", "HostQueryFailure"} :
        /\ host' = HostAnswers(r, NoAnswers)
        /\ HostSection(r, "os_info", "os_ip")
    /\ calls' = <<>>
    /\ UNCHANGED <<cycle, pidlist, processes, top, top10, process_table>>
    /\ UNCHANGED <<stdout_table, lines, lineno, out_stream, err_stream>>

\* lines 35-40: the memory table; psutil.virtual_memory may fail
MemoryUsage ==
    /\ pc = "memory"
    /\ \E r \in {"none", "HostQueryFailure"} :
        /\ host' = HostAnswers(r, NoAnswers)
        /\ HostSection(r, "memory_header", "memory_table")
    /\ UNCHANGED <<cycle, pidlist, processes, top, top10, process_table, calls>>
    /\ UNCHANGED <<stdout_table, lines, lineno, out_stream, err_stream>>

\* lines 42-47: the disk table; psutil.disk_usage may fail
DiskUsage ==
    /\ pc = "disk"
    /\ \E r \in {"none", "HostQueryFailure"} :
        /\ host' = HostAnswers(r, NoAnswers)
        /\ HostSection(r, "disk_header", "disk_table")
    /\ UNCHANGED <<cycle, pidlist, processes, top, top10, process_table, calls>>
    /\ UNCHANGED <<stdout_table, lines, lineno, out_stream, err_stream>>

\* lines 49-58: the header, the enumeration and the priming pass
Prime ==
    /\ pc = "prime"
    /\ \E n \in PidCounts :
       \E h \in [Volatile(LastK(Pids(n), K))
                   -> {Ans(e, 0) : e \in {"none"} \cup Failures}] :
         LET st == PrimePass(Pids(n), h)
         IN /\ pidlist' = Pids(n)
            /\ host' = HostAnswers("none", h)
            /\ processes' = st.list
            /\ calls' = Append(calls, Call("primer", st.list, NoRaw))
            /\ IF st.raised = "none" THEN Continue ELSE Raise(st.raised)
    /\ out' = Append(out, "process_header")
    /\ UNCHANGED <<cycle, top, top10, process_table>>
    /\ UNCHANGED <<stdout_table, lines, lineno, out_stream, err_stream>>

\* line 60 left out: the dict of the previous cycle is filled again
SettleKeepsTop ==
    /\ pc = "settle"
    /\ calls' = Append(calls, Call("settle", <<>>, NoRaw))
    /\ host' = HostAnswers("none", NoAnswers)
    /\ Continue
    /\ UNCHANGED <<cycle, pidlist, processes, top, top10, process_table, out>>
    /\ UNCHANGED <<stdout_table, lines, lineno, out_stream, err_stream>>

\* lines 60-61: top = {}; time.sleep(.1)
Settle ==
    /\ pc = "settle"
    /\ top' = <<>>
    /\ calls' = Append(calls, Call("settle", <<>>, NoRaw))
    /\ host' = HostAnswers("none", NoAnswers)
    /\ Continue
    /\ UNCHANGED <<cycle, pidlist, processes, top10, process_table, out>>
    /\ UNCHANGED <<stdout_table, lines, lineno, out_stream, err_stream>>

\* lines 62-63: the measuring pass; the loop stops at the first handle whose
\* cpu_percent() raises, so the handles after it are not called
Measure ==
    /\ pc = "measure"
    /\ \E h \in [Volatile(pidlist) \cap Range(processes)
                   -> {Ans("none", r) : r \in 0..MaxCpu}
                      \cup {Ans("ProcessGone", 0)}] :
         LET st == MeasurePass(processes, top, h)
             answer(p) == Answer(h, p, Ans("none", DefaultCpu(p)))
             readings == [p \in {q \in Range(st.called) : answer(q).err = "none"}
                            |-> answer(p).raw]
         IN /\ host' = HostAnswers("none", h)
            /\ top' = st.dict
            /\ calls' = Append(calls, Call("measure", st.called, readings))
            /\ IF st.raised = "none" THEN Continue ELSE Raise(st.raised)
    /\ UNCHANGED <<cycle, pidlist, processes, top10, process_table, out>>
    /\ UNCHANGED <<stdout_table, lines, lineno, out_stream, err_stream>>

\* lines 64-65: sort, take the last N, reverse
RankTop ==
    /\ pc = "rank"
    /\ top10' = Rank(top)
    /\ calls' = Append(calls, Call("rank", <<>>, NoRaw))
    /\ host' = HostAnswers("none", NoAnswers)
    /\ Continue
    /\ UNCHANGED <<cycle, pidlist, processes, top, process_table, out>>
    /\ UNCHANGED <<stdout_table, lines, lineno, out_stream, err_stream>>

\* lines 66-81: a new table and one row per selected entry that still answers
Materialize ==
    /\ pc = "rows"
    /\ \E h \in [Volatile(pidlist) \cap {top10[i].proc : i \in 1..Len(top10)}
                   -> {Ok, Ans("ProcessGone", 0)}] :
         LET st == Rows(top10, h)
         IN /\ host' = HostAnswers("none", h)
            /\ process_table' = st.list
            /\ IF st.raised = "none" THEN Continue ELSE Raise(st.raised)
    /\ calls' = Append(calls, Call("rows", [i \in 1..Len(top10) |-> top10[i].proc],
                                   NoRaw))
    /\ UNCHANGED <<cycle, pidlist, processes, top, top10, out>>
    /\ UNCHANGED <<stdout_table, lines, lineno, out_stream, err_stream>>

\* line 82: print(process_table)
PrintTable ==
    /\ pc = "print"
    /\ out' = Append(out, "process_table")
    /\ stdout_table' = process_table
    /\ calls' = Append(calls, Call("print", <<>>, NoRaw))
    /\ host' = HostAnswers("none", NoAnswers)
    /\ Continue
    /\ UNCHANGED <<cycle, pidlist, processes, top, top10, process_table>>
    /\ UNCHANGED stdioVars

\* line 84 and the loop back to line 21: time.sleep(1)
Sleep ==
    /\ pc = "sleep"
    /\ cycle < MaxCycles
    /\ cycle' = cycle + 1
    /\ calls' = Append(calls, Call("sleep", <<>>, NoRaw))
    /\ Continue
    /\ UNCHANGED <<pidlist, processes, top, top10, process_table, out, host>>
    /\ UNCHANGED <<stdout_table, lines, lineno, out_stream, err_stream>>

Next ==
    \/ OsInfo
    \/ MemoryUsage
    \/ DiskUsage
    \/ Prime
    \/ Settle
    \/ Measure
    \/ RankTop
    \/ Materialize
    \/ PrintTable
    \/ Sleep

Spec == Init /\ [][Next]_vars

----------------------------------------------------------------------------
(* src/stdio.py: process_stream_uppercase *)

Alphabet == {"a", " ", "\n"}

\* the strings of at most MaxLineLen characters
RawLines == UNION {[1..k -> Alphabet] : k \in 0..MaxLineLen}

\* the inputs: at most MaxLines strings
Inputs == UNION {[1..k -> RawLines] : k \in 0..MaxLines}

\* raw.rstrip("\n")
RECURSIVE RStrip(_)
RStrip(raw) ==
    IF Len(raw) > 0 /\ raw[Len(raw)] = "\n"
    THEN RStrip(SubSeq(raw, 1, Len(raw) - 1))
    ELSE raw

\* str.upper() on the alphabet
UpperChar(c) == IF c = "a" THEN "A" ELSE c
Upper(line) == [i \in 1..Len(line) |-> UpperChar(line[i])]

\* f"warning: empty line {lineno}", as print() writes it
Warning(n) == <<"warning: empty line", n>>

\* enumerate(in_stream) without start=1
ProcessOneFromZero(st, n, raw) ==
    LET line == RStrip(raw)
    IN IF line = <<>>
       THEN [st EXCEPT !.err = Append(st.err, Warning(n - 1))]
       ELSE [st EXCEPT !.out = st.out \o Upper(line) \o <<"\n">>]

\* one iteration of the loop of lines 30-36 on the streams st = [out, err];
\* n is the number enumerate(in_stream, start=1) gives to raw
ProcessOne(st, n, raw) ==
    LET line == RStrip(raw)
    IN IF line = <<>>
       THEN [st EXCEPT !.err = Append(st.err, Warning(n))]
       ELSE [st EXCEPT !.out = st.out \o Upper(line) \o <<"\n">>]

InitUpper ==
    /\ lines \in Inputs
    /\ lineno = 0
    /\ out_stream = <<>>
    /\ err_stream = <<>>
    /\ pc = "os"
    /\ cycle = 1
    /\ pidlist = <<>>
    /\ processes = <<>>
    /\ top = <<>>
    /\ top10 = <<>>
    /\ process_table = <<>>
    /\ out = <<>>
    /\ stdout_table = <<>>
    /\ calls = <<>>
    /\ host = HostAnswers("none", NoAnswers)
    /\ exc = "none"

\* the next line of in_stream is read and handled
ProcessLine ==
    /\ lineno < Len(lines)
    /\ LET st == ProcessOne([out |-> out_stream, err |-> err_stream],
                            lineno + 1, lines[lineno + 1])
       IN /\ out_stream' = st.out
          /\ err_stream' = st.err
    /\ lineno' = lineno + 1
    /\ UNCHANGED lines
    /\ UNCHANGED monitorVars

NextUpper == ProcessLine

SpecUpper == InitUpper /\ [][NextUpper]_vars

----------------------------------------------------------------------------
(* Properties of the reporting loop, checked under Spec *)

LastOp == IF calls = <<>> THEN "none" ELSE calls[Len(calls)].op

\* the call o of the current cycle
CallOf(o) == calls[CHOOSE i \in 1..Len(calls) : calls[i].op = o]

\* the table of the current cycle has been built
TableBuilt == LastOp \in {"rows", "print", "sleep"}

\* the answer of the host to the most recent step's query about pid
LastAnswer(pid) == Answer(host.proc, pid, Ok)

RowPids == [i \in 1..Len(process_table) |-> process_table[i].pid]

Count(s, x) == Cardinality({i \in 1..Len(s) : s[i] = x})

\* C1: when a tracked process answers ProcessGone to its measurement, no
\* exception escapes, the process is left out of the ranking map and every
\* other tracked process is measured.
C1_ExitBeforeMeasureSkipped ==
    (LastOp = "measure"
       /\ \E p \in DOMAIN host.proc : host.proc[p].err = "ProcessGone")
    => /\ pc = "rank"
       /\ exc = "none"
       /\ \A p \in Range(processes) :
            (\E i \in 1..Len(top) : top[i].proc = p)
              <=> LastAnswer(p).err = "none"

\* C2: a rendered table has at most N rows, at most K rows, and at most as
\* many rows as processes that were both primed and measured in the cycle.
C2_TableBounded ==
    TableBuilt =>
      /\ Len(process_table) <= N
      /\ Len(process_table) <= K
      /\ Len(process_table) <=
           Cardinality(Range(CallOf("primer").procs)
                         \cap DOMAIN CallOf("measure").raw)
      /\ Len(process_table) <= Len(pidlist)

\* C2 witness: more than K pids were enumerated and the table is full.
C2_Witness ==
    /\ TableBuilt
    /\ Len(pidlist) > K
    /\ Len(process_table) = N

\* C3: in a rendered table the CPU percent does not increase from one row to
\* the next, neither as printed nor as measured.
C3_TableNonIncreasing ==
    TableBuilt =>
      \A i \in 1..Len(process_table) : \A j \in 1..Len(process_table) :
        i < j =>
          /\ process_table[i].cpu >= process_table[j].cpu
          /\ CallOf("measure").raw[process_table[i].pid]
               >= CallOf("measure").raw[process_table[j].pid]

\* C3 witness: a selected entry was dropped and the rows left differ in CPU.
C3_Witness ==
    /\ TableBuilt
    /\ Len(process_table) < Len(top10)
    /\ Len(process_table) >= 2
    /\ process_table[1].cpu > process_table[Len(process_table)].cpu

\* C4: after the rows are built, the table holds exactly the selected entries
\* whose process still answered, in their order in top10, and control goes on
\* to print the table.
C4_ExitedEntryDropped ==
    LastOp = "rows" =>
      LET kept == SelectSeq(top10, LAMBDA e : LastAnswer(e.proc).err = "none")
      IN /\ pc = "print"
         /\ exc = "none"
         /\ Len(process_table) = Len(kept)
         /\ \A i \in 1..Len(kept) :
              /\ process_table[i].pid = kept[i].proc
              /\ process_table[i].cpu = Format2(kept[i].cpu_usage)

\* C4 witness: N entries were selected out of more, one of them has exited,
\* and the table has N - 1 rows.
C4_Witness ==
    /\ LastOp = "rows"
    /\ \E p \in DOMAIN host.proc : host.proc[p].err = "ProcessGone"
    /\ Len(top) > N
    /\ Len(top10) = N
    /\ Len(process_table) = N - 1

\* C5: after the priming pass the tracked list holds exactly the enumerated
\* pids within the cap that opened and primed, in order; no failure escapes;
\* and whichever of NotFound, ProcessGone and PermissionDenied the failing
\* pids raise, the pass ends the same.
C5_PrimeFailureSkipped ==
    LastOp = "primer" =>
      /\ pc = "settle"
      /\ exc = "none"
      /\ processes = SelectSeq(LastK(pidlist, K),
                               LAMBDA p : LastAnswer(p).err = "none")
      /\ \A e \in Failures :
           LET h == [p \in DOMAIN host.proc |->
                        IF host.proc[p].err = "none" THEN Ok ELSE Ans(e, 0)]
           IN PrimePass(pidlist, h) = [list |-> processes, raised |-> "none"]

\* C5 witness: a pid was denied and the other enumerated pids are tracked.
C5_Witness ==
    /\ LastOp = "primer"
    /\ \E p \in DOMAIN host.proc : host.proc[p].err = "PermissionDenied"
    /\ Len(processes) >= N

\* C6: once a host-level query has failed the program has stopped with that
\* failure: nothing more can happen, the last thing printed is what precedes
\* the failed query, and the cycle has printed no process table.
C6_HostFailureStops ==
    host.sys = "HostQueryFailure" =>
      /\ pc = "crashed"
      /\ exc = "HostQueryFailure"
      /\ ~ENABLED Next
      /\ out[Len(out)] \in {"os_info", "memory_header", "disk_header"}
      /\ Count(out, "process_header") = cycle - 1
      /\ Count(out, "process_table") = cycle - 1

\* C6 witness: the disk query fails in the second cycle, after the first
\* cycle's report and this cycle's OS and memory sections were printed.
C6_Witness ==
    /\ host.sys = "HostQueryFailure"
    /\ cycle = 2
    /\ out[Len(out)] = "disk_header"
    /\ Count(out, "memory_table") = 2

PhaseOrder == <<"primer", "settle", "measure", "rank", "rows", "print", "sleep">>

\* C8: the calls of a cycle happen in the order priming pass, settle wait,
\* measuring pass, ranking, row building, printing, inter-cycle sleep; the
\* measuring pass calls the handles the priming pass tracked, in order, and
\* has called every one of them before the ranking starts; and the
\* inter-cycle sleep follows the printing of the process table.
C8_PhasesOrdered ==
    /\ IsPrefix([i \in 1..Len(calls) |-> calls[i].op], PhaseOrder)
    /\ Len(calls) >= 3 => IsPrefix(calls[3].procs, calls[1].procs)
    /\ Len(calls) >= 4 =>
         /\ calls[3].procs = calls[1].procs
         /\ DOMAIN calls[3].raw = Range(calls[1].procs)
    /\ LastOp = "sleep" => out[Len(out)] = "process_table"

\* C8 witness: a cycle that tracked processes ran through to its sleep.
C8_Witness ==
    /\ LastOp = "sleep"
    /\ Len(calls) = Len(PhaseOrder)
    /\ Len(calls[1].procs) > N

\* C9: of two selected processes with the same reading the one enumerated
\* later comes first, in top10 and in the table; and a process left out of
\* top10 with the same reading as a selected one was enumerated before it.
C9_TiesLaterFirst ==
    LastOp \in {"rank", "rows", "print", "sleep"} =>
      LET raw == CallOf("measure").raw
          procs == CallOf("measure").procs
          pos == [p \in Range(procs) |-> CHOOSE i \in 1..Len(procs) : procs[i] = p]
          sel == [i \in 1..Len(top10) |-> top10[i].proc]
          rows == IF TableBuilt THEN RowPids ELSE <<>>
      IN /\ \A i \in 1..Len(sel) : \A j \in 1..Len(sel) :
              (i < j /\ raw[sel[i]] = raw[sel[j]]) => pos[sel[i]] > pos[sel[j]]
         /\ \A i \in 1..Len(rows) : \A j \in 1..Len(rows) :
              (i < j /\ raw[rows[i]] = raw[rows[j]]) => pos[rows[i]] > pos[rows[j]]
         /\ \A p \in Range(procs) \ Range(sel) : \A q \in Range(sel) :
              raw[p] = raw[q] => pos[p] < pos[q]

\* C9 witness: more than N processes were measured and a process left out has
\* the same reading as a selected one.
C9_Witness ==
    /\ LastOp = "rank"
    /\ Len(top) > N
    /\ \E i \in 1..Len(top) : \E j \in 1..Len(top10) :
         /\ \A l \in 1..Len(top10) : top10[l].proc # top[i].proc
         /\ top[i].cpu_usage = top10[j].cpu_usage

\* the rows of a table are of pids among the last K of this cycle's
\* enumeration, measured in this cycle, with this cycle's reading, and no pid
\* has two rows
RowsOfThisCycle(t) ==
    /\ \A i \in 1..Len(t) :
         /\ t[i].pid \in Range(LastK(pidlist, K))
         /\ t[i].pid \in DOMAIN CallOf("measure").raw
         /\ t[i].cpu = Format2(Normalized(CallOf("measure").raw[t[i].pid]))
    /\ \A i \in 1..Len(t) : \A j \in 1..Len(t) : i # j => t[i].pid # t[j].pid

\* the table of this cycle: as built, and as printed once it has been printed
TableOfThisCycle ==
    /\ TableBuilt => RowsOfThisCycle(process_table)
    /\ LastOp \in {"print", "sleep"} =>
         /\ out[Len(out)] = "process_table"
         /\ RowsOfThisCycle(stdout_table)

\* C10 as claimed: every row of a rendered table is of a pid among the last K
\* of this cycle's enumeration, measured in this cycle; no pid has two rows;
\* and the tracked list and the ranking map are empty at the start of each
\* cycle's process section.
C10_EmptyAtSectionStart ==
    /\ TableOfThisCycle
    /\ pc = "prime" => (processes = <<>> /\ top = <<>>)

\* C10 amended: every row of a rendered table is of a pid among the last K of
\* this cycle's enumeration, measured in this cycle, with this cycle's
\* reading; no pid has two rows; once the cycle's priming pass has run the
\* tracked list holds pids of this cycle's capped enumeration only, each
\* once; the ranking map is empty when the cycle's measuring starts and
\* afterwards holds this cycle's readings and nothing else.
C10_RowsFromThisCycle ==
    /\ TableOfThisCycle
    /\ Len(calls) >= 1 =>
         /\ Range(processes) \subseteq Range(LastK(pidlist, K))
         /\ \A i \in 1..Len(processes) : \A j \in 1..Len(processes) :
              i # j => processes[i] # processes[j]
    /\ pc = "measure" => top = <<>>
    /\ Len(calls) >= 3 =>
         /\ {top[i].proc : i \in 1..Len(top)} = DOMAIN calls[3].raw
         /\ \A i \in 1..Len(top) :
              top[i].cpu_usage = Normalized(calls[3].raw[top[i].proc])

\* C10 witness: the second cycle has built a table of one row, of the only
\* pid of its enumeration, while stdout still shows the first cycle's full
\* table of other pids.
C10_Witness ==
    /\ cycle = 2
    /\ LastOp = "rows"
    /\ Len(pidlist) = 1
    /\ Len(process_table) = 1
    /\ Count(out, "process_table") = 1
    /\ Len(stdout_table) = N
    /\ \A j \in 1..N : stdout_table[j].pid \notin Range(pidlist)

----------------------------------------------------------------------------
(* Properties of process_stream_uppercase, checked under SpecUpper *)

\* raw without its trailing newline characters
Stripped(raw) ==
    LET keep == {k \in 1..Len(raw) : \E l \in k..Len(raw) : raw[l] # "\n"}
    IN SubSeq(raw, 1, Cardinality(keep))

\* what the first k lines of ls put on out_stream
RECURSIVE ExpectedOut(_, _)
ExpectedOut(ls, k) ==
    IF k = 0 THEN <<>>
    ELSE ExpectedOut(ls, k - 1)
         \o (IF Stripped(ls[k]) = <<>> THEN <<>>
             ELSE [i \in 1..Len(Stripped(ls[k])) |->
                      IF Stripped(ls[k])[i] = "a" THEN "A" ELSE Stripped(ls[k])[i]]
                  \o <<"\n">>)

\* what the first k lines of ls put on err_stream
RECURSIVE ExpectedErr(_, _)
ExpectedErr(ls, k) ==
    IF k = 0 THEN <<>>
    ELSE ExpectedErr(ls, k - 1)
         \o (IF Stripped(ls[k]) = <<>> THEN <<<<"warning: empty line", k>>>> ELSE <<>>)

\* C7: after any number of lines out_stream holds the non-empty lines read
\* so far, stripped of trailing newlines, uppercased and newline-terminated,
\* in input order, and err_stream one warning per empty line with its
\* 1-based position in the input.
C7_UppercaseAndWarn ==
    /\ out_stream = ExpectedOut(lines, lineno)
    /\ err_stream = ExpectedErr(lines, lineno)

\* C7 witness: the input is a non-empty line followed by an empty one; the
\* warning carries position 2.
C7_Witness ==
    /\ lineno = 2
    /\ Len(lines) = 2
    /\ Len(out_stream) > 1
    /\ err_stream = <<Warning(2)>>

====
